---- MODULE Spec2Model ----
(***************************************************************************)
(* Three-state, two-cell-neighbourhood cellular automaton                  *)
(* (code/three_state_unspaghetti.py): lookup_table, spacetime_field and    *)
(* the ECA class (ECA.__init__, ECA.evolve).                                *)
(*                                                                         *)
(* Python lists are mutable objects, so they live in a heap: a reference   *)
(* is an index into `heap`, and two names alias when they hold the same    *)
(* index.  Integers and the lookup dict (never mutated) are plain values.  *)
(***************************************************************************)
EXTENDS Integers, Sequences, FiniteSets, TLC

VARIABLES
    rule_number,        \* the caller's rule_number argument
    initial_condition,  \* reference to the caller's initial_condition list
    heap,               \* list objects: heap[ref] is the list's contents
    eca,                \* the ECA instance's attributes (NoEngine before/without construction)
    pc,                 \* "new", "idle", "loop", "failed", "returned"
    arg,                \* time_steps as passed to the last evolve / spacetime_field call
    todo,               \* iterations of `for _ in range(time_steps)` still to run
    raised,             \* exception that ended the last call, or "none"
    table,              \* outcome of a direct lookup_table(rule_number) call
    field,              \* outcome of a spacetime_field(...) call
    log,                \* history variable: time_steps of every evolve call that entered the loop
    original,           \* history variable: contents of the caller's list when the run began
    mutations           \* number of in-place writes done by the caller (SpecAlias only)

vars == <<rule_number, initial_condition, heap, eca, pc, arg, todo, raised,
          table, field, log, original, mutations>>

-----------------------------------------------------------------------------
(* Bounds of the model *)
MaxLen == 3
MaxGens == 3
MaxCalls == 2
MaxMutations == 1

(* Program constants *)
MaxRule == 19682
Base == 3
TableSize == 9

-----------------------------------------------------------------------------
(* Outcomes of a call: a returned value or a raised exception *)
Ok(v) == [ok |-> TRUE, exc |-> "none", value |-> v]
Raise(e) == [ok |-> FALSE, exc |-> e, value |-> <<>>]
NotCalled == [ok |-> FALSE, exc |-> "not called", value |-> <<>>]

RuleError == "ValueError: rule_number must be an int between 0 and 19682, inclusive"
CellError == "ValueError: initial condition must be a list of 0s, 1s and 2s"
StepsError == "ValueError: time_steps must be a non-negative integer"
FloatInfError == "OverflowError: cannot convert float infinity to integer"
LookupMiss == "KeyError"

-----------------------------------------------------------------------------
(* lookup_table *)

neighborhoods ==
    << <<0,0>>, <<0,1>>, <<0,2>>, <<1,0>>, <<1,1>>, <<1,2>>, <<2,0>>, <<2,1>>, <<2,2>> >>

\* str(r) for a ternary digit r
str(r) == CASE r = 0 -> "0" [] r = 1 -> "1" [] r = 2 -> "2"

\* int(c) for a digit character c (the map(int, ...) of the return statement)
int_of_char(c) == CASE c = "0" -> 0 [] c = "1" -> 1 [] c = "2" -> 2

\* reversed(s)
reversed(s) == [i \in 1..Len(s) |-> s[Len(s) + 1 - i]]

\* the while loop: digits of n, least significant first, as characters
RECURSIVE nums(_)
nums(n) == IF n = 0 THEN <<>> ELSE <<str(n % Base)>> \o nums(n \div Base)

\* '0' * k  (the empty string when k <= 0)
zeros(k) == [i \in 1..k |-> "0"]

\* faulty variant: the padding step is missing
in_ternary_unpadded(n) == reversed(nums(n))

\* in_ternary after the padding step
in_ternary(n) ==
    LET t == reversed(nums(n))
    IN  IF Len(t) # TableSize THEN zeros(TableSize - Len(t)) \o t ELSE t

\* zip(a, b): pairs up to the shorter length
zip(a, b) ==
    LET n == IF Len(a) < Len(b) THEN Len(a) ELSE Len(b)
    IN  [i \in 1..n |-> <<a[i], b[i]>>]

\* dict(pairs): the last pair with a given key wins
dict(pairs) ==
    [k \in {pairs[i][1] : i \in DOMAIN pairs} |->
        pairs[CHOOSE i \in DOMAIN pairs :
                /\ pairs[i][1] = k
                /\ \A j \in DOMAIN pairs : j > i => pairs[j][1] # k][2]]

\* faulty variant: the digits paired most-significant first (reversed() forgotten)
table_digits_unreversed(t) == [i \in DOMAIN t |-> int_of_char(t[i])]

\* map(int, reversed(in_ternary))
table_digits(t) == [i \in DOMAIN t |-> int_of_char(reversed(t)[i])]

rule_ok(r) == r.isint /\ r.val >= 0 /\ r.val <= MaxRule

lookup_table(r) ==
    IF ~rule_ok(r)
    THEN Raise(RuleError)
    ELSE Ok(dict(zip(neighborhoods, table_digits(in_ternary(r.val)))))

-----------------------------------------------------------------------------
(* time_steps handling *)

\* faulty variant: the negative check is missing
less_than_zero_always_false(x) == FALSE

\* time_steps < 0  (False for nan and for +inf)
less_than_zero(x) == x.kind = "num" /\ x.num < 0

\* faulty variant: rounds up instead of truncating
int_ceil(x) == IF x.num >= 0 THEN (x.num + x.den - 1) \div x.den ELSE -((-x.num) \div x.den)

\* int(time_steps) for a finite number: truncation toward zero
int(x) == IF x.num >= 0 THEN x.num \div x.den ELSE -((-x.num) \div x.den)

\* faulty variant: the loop runs over range(time_steps + 1)
range_len_plus_one(n) == IF n + 1 > 0 THEN n + 1 ELSE 0

\* len(range(n))
range_len(n) == IF n > 0 THEN n ELSE 0

\* lines 241-247 / 92-98: the outcome of validating and converting time_steps
convert_steps(x) ==
    IF less_than_zero(x) THEN Raise(StepsError)
    ELSE IF x.kind = "nan" THEN Raise(StepsError)
    ELSE IF x.kind = "inf" THEN Raise(FloatInfError)
    ELSE Ok(int(x))

-----------------------------------------------------------------------------
(* one generation *)

ValidCells == {0, 1, 2}

\* faulty variant: the empty list is refused as well
cells_valid_nonempty(c) == Len(c) > 0 /\ \A i \in DOMAIN c : c[i] \in ValidCells

\* faulty variant: no validation of the cells
cells_valid_unchecked(c) == TRUE

\* the validation loop: no element outside [0,1,2]
cells_valid(c) == \A i \in DOMAIN c : c[i] \in ValidCells

\* the neighborhood tuple of position i (0-based) in configuration cur
neighborhood(cur, i, length) == <<cur[((i - 1) % length) + 1], cur[i + 1]>>

\* faulty variant: the update is done in place, so position i reads the already
\* updated left neighbour
RECURSIVE in_place(_, _, _, _)
in_place(cur, tbl, length, i) ==
    IF i >= length THEN cur
    ELSE in_place([cur EXCEPT ![i + 1] = tbl[neighborhood(cur, i, length)]],
                  tbl, length, i + 1)

new_configuration_in_place(cur, tbl, length) ==
    IF \E i \in 0..(length - 1) : neighborhood(cur, i, length) \notin DOMAIN tbl
    THEN Raise(LookupMiss)
    ELSE Ok(in_place(cur, tbl, length, 0))

\* the inner for loop: a fresh list, filled from the current configuration;
\* a neighborhood that is no key of the table raises KeyError
new_configuration(cur, tbl, length) ==
    IF \E i \in 0..(length - 1) : neighborhood(cur, i, length) \notin DOMAIN tbl
    THEN Raise(LookupMiss)
    ELSE Ok([i \in 1..length |-> tbl[neighborhood(cur, i - 1, length)]])

-----------------------------------------------------------------------------
(* the ECA instance *)

NoEngine ==
    [lookup_table |-> <<>>, initial |-> 0, spacetime |-> <<>>,
     current_configuration |-> 0, _length |-> 0]

\* the attribute assignments of __init__: spacetime holds the caller's list
\* itself, current_configuration a copy of it (a new object)
construct(h, ic, lt) ==
    [heap |-> Append(h, h[ic]),
     eca  |-> [lookup_table |-> lt, initial |-> ic,
               spacetime |-> <<ic>>,
               current_configuration |-> Len(h) + 1,
               _length |-> Len(h[ic])]]

\* faulty variant: the new generation is written over the current configuration's
\* list, and that list is appended once more
commit_in_place(h, e, nc) ==
    [heap |-> [h EXCEPT ![e.current_configuration] = nc],
     eca  |-> [e EXCEPT !.spacetime = Append(@, e.current_configuration)]]

\* the end of one pass of the for loop: the new list becomes the current
\* configuration and the same object is appended to the history
commit(h, e, nc) ==
    [heap |-> Append(h, nc),
     eca  |-> [e EXCEPT !.current_configuration = Len(h) + 1,
                        !.spacetime = Append(@, Len(h) + 1)]]

\* `steps` passes of the for loop of evolve, from engine state s
RECURSIVE run_evolve(_, _)
run_evolve(s, steps) ==
    IF steps <= 0 THEN s
    ELSE LET nc == new_configuration(s.heap[s.eca.current_configuration],
                                     s.eca.lookup_table, s.eca._length)
         IN  run_evolve(commit(s.heap, s.eca, nc.value), steps - 1)

\* the contents of the history's rows
rows(h, e) == [t \in DOMAIN e.spacetime |-> h[e.spacetime[t]]]

-----------------------------------------------------------------------------
(* spacetime_field *)

RECURSIVE field_loop(_, _, _, _, _)
field_loop(spacetime, cur, lookup, length, t) ==
    IF t <= 0 THEN Ok(spacetime)
    ELSE LET nc == new_configuration(cur, lookup, length)
         IN  IF ~nc.ok THEN Raise(nc.exc)
             ELSE field_loop(Append(spacetime, nc.value), nc.value, lookup, length, t - 1)

spacetime_field(r, ic, time_steps) ==
    LET steps == convert_steps(time_steps)
        lookup == lookup_table(r)
    IN  IF ~steps.ok THEN Raise(steps.exc)
        ELSE IF ~cells_valid(ic) THEN Raise(CellError)
        ELSE IF ~lookup.ok THEN Raise(lookup.exc)
        ELSE field_loop(<<ic>>, ic, lookup.value, Len(ic), range_len(steps.value))

-----------------------------------------------------------------------------
(* inputs *)

Int_(v) == [isint |-> TRUE, val |-> v]
Float_(v) == [isint |-> FALSE, val |-> v]

RuleInputs ==
    {Int_(v) : v \in {-1, 0, 22, 255, MaxRule, MaxRule + 1}} \cup {Float_(22)}

AllRuleInputs ==
    {Int_(v) : v \in -1..(MaxRule + 1)} \cup {Float_(0), Float_(22), Float_(MaxRule)}

CellInputs == 0..3

RECURSIVE lists_of(_)
lists_of(n) ==
    IF n = 0 THEN {<<>>}
    ELSE {Append(l, c) : l \in lists_of(n - 1), c \in CellInputs}

TraceInitial == <<0, 0, 2, 0, 1, 0>>

InitialConditions == UNION {lists_of(n) : n \in 0..MaxLen} \cup {TraceInitial}

Num(n, d) == [kind |-> "num", num |-> n, den |-> d]
NaN == [kind |-> "nan", num |-> 0, den |-> 1]
Inf == [kind |-> "inf", num |-> 0, den |-> 1]
NoArg == [kind |-> "none", num |-> 0, den |-> 1]

StepInputs ==
    {Num(n, 1) : n \in -1..MaxGens} \cup {Num(n, 2) : n \in {-1, 1, 4, 5}}
        \cup {NaN, Inf}

-----------------------------------------------------------------------------
(* the state machine *)

Init ==
    /\ rule_number \in RuleInputs
    /\ original \in InitialConditions
    /\ heap = <<original>>
    /\ initial_condition = 1
    /\ eca = NoEngine
    /\ pc = "new"
    /\ arg = NoArg
    /\ todo = 0
    /\ raised = "none"
    /\ table = NotCalled
    /\ field = NotCalled
    /\ log = <<>>
    /\ mutations = 0

\* ECA(rule_number, initial_condition)
ECA_init ==
    /\ pc = "new"
    /\ LET lt == lookup_table(rule_number)
       IN  IF ~cells_valid(heap[initial_condition])
           THEN /\ raised' = CellError
                /\ pc' = "failed"
                /\ UNCHANGED <<heap, eca>>
           ELSE IF ~lt.ok
           THEN /\ raised' = lt.exc
                /\ pc' = "failed"
                /\ UNCHANGED <<heap, eca>>
           ELSE LET s == construct(heap, initial_condition, lt.value)
                IN  /\ heap' = s.heap
                    /\ eca' = s.eca
                    /\ raised' = "none"
                    /\ pc' = "idle"
    /\ UNCHANGED <<rule_number, initial_condition, arg, todo, table, field,
                   log, original, mutations>>

\* eca.evolve(time_steps), up to the for loop
evolve(time_steps) ==
    /\ pc = "idle"
    /\ arg' = time_steps
    /\ LET steps == convert_steps(time_steps)
       IN  IF ~steps.ok
           THEN /\ raised' = steps.exc
                /\ UNCHANGED <<pc, todo, log>>
           ELSE /\ Len(log) < MaxCalls
                /\ Len(eca.spacetime) - 1 + range_len(steps.value) <= MaxGens
                /\ raised' = "none"
                /\ todo' = range_len(steps.value)
                /\ log' = Append(log, time_steps)
                /\ pc' = "loop"
    /\ UNCHANGED <<rule_number, initial_condition, heap, eca, table, field,
                   original, mutations>>

\* one pass of the for loop of evolve
evolve_iteration ==
    /\ pc = "loop"
    /\ todo > 0
    /\ LET nc == new_configuration(heap[eca.current_configuration],
                                   eca.lookup_table, eca._length)
       IN  IF ~nc.ok
           THEN /\ raised' = nc.exc
                /\ pc' = "idle"
                /\ todo' = 0
                /\ UNCHANGED <<heap, eca>>
           ELSE LET s == commit(heap, eca, nc.value)
                IN  /\ heap' = s.heap
                    /\ eca' = s.eca
                    /\ todo' = todo - 1
                    /\ UNCHANGED <<pc, raised>>
    /\ UNCHANGED <<rule_number, initial_condition, arg, table, field, log,
                   original, mutations>>

\* the for loop is exhausted: evolve returns None
evolve_return ==
    /\ pc = "loop"
    /\ todo <= 0
    /\ pc' = "idle"
    /\ UNCHANGED <<rule_number, initial_condition, heap, eca, arg, todo, raised,
                   table, field, log, original, mutations>>

\* spacetime_field(rule_number, initial_condition, time_steps), a pure call
spacetime_field_call(time_steps) ==
    /\ pc = "new"
    /\ convert_steps(time_steps).ok => range_len(int(time_steps)) <= MaxGens
    /\ arg' = time_steps
    /\ field' = spacetime_field(rule_number, heap[initial_condition], time_steps)
    /\ raised' = field'.exc
    /\ pc' = "returned"
    /\ UNCHANGED <<rule_number, initial_condition, heap, eca, todo, table, log,
                   original, mutations>>

\* lookup_table(rule_number), a pure call
lookup_table_call ==
    /\ pc = "new"
    /\ table' = lookup_table(rule_number)
    /\ raised' = table'.exc
    /\ pc' = "returned"
    /\ UNCHANGED <<rule_number, initial_condition, heap, eca, arg, todo, field,
                   log, original, mutations>>

Next ==
    \/ ECA_init
    \/ \E time_steps \in StepInputs : evolve(time_steps)
    \/ evolve_iteration
    \/ evolve_return
    \/ \E time_steps \in StepInputs : spacetime_field_call(time_steps)
    \/ lookup_table_call

Spec == Init /\ [][Next]_vars

-----------------------------------------------------------------------------
(* lookup_table alone, over every rule number *)

InitTable ==
    /\ rule_number \in AllRuleInputs
    /\ original = <<>>
    /\ heap = <<original>>
    /\ initial_condition = 1
    /\ eca = NoEngine
    /\ pc = "new"
    /\ arg = NoArg
    /\ todo = 0
    /\ raised = "none"
    /\ table = NotCalled
    /\ field = NotCalled
    /\ log = <<>>
    /\ mutations = 0

NextTable == lookup_table_call

SpecTable == InitTable /\ [][NextTable]_vars

-----------------------------------------------------------------------------
(* the caller keeps its references: it can write into its own list and into *)
(* the list it reads from eca.current_configuration                         *)

\* initial_condition[i] = v, done by the caller after construction
mutate_initial_condition(i, v) ==
    /\ pc = "idle"
    /\ mutations < MaxMutations
    /\ i \in DOMAIN heap[initial_condition]
    /\ heap' = [heap EXCEPT ![initial_condition][i] = v]
    /\ mutations' = mutations + 1
    /\ UNCHANGED <<rule_number, initial_condition, eca, pc, arg, todo, raised,
                   table, field, log, original>>

\* eca.current_configuration[i] = v, done by the caller between evolve calls
mutate_current_configuration(i, v) ==
    /\ pc = "idle"
    /\ mutations < MaxMutations
    /\ i \in DOMAIN heap[eca.current_configuration]
    /\ heap' = [heap EXCEPT ![eca.current_configuration][i] = v]
    /\ mutations' = mutations + 1
    /\ UNCHANGED <<rule_number, initial_condition, eca, pc, arg, todo, raised,
                   table, field, log, original>>

NextAlias ==
    \/ ECA_init
    \/ \E time_steps \in StepInputs : evolve(time_steps)
    \/ evolve_iteration
    \/ evolve_return
    \/ \E i \in 1..(MaxLen + 3), v \in CellInputs : mutate_initial_condition(i, v)
    \/ \E i \in 1..(MaxLen + 3), v \in CellInputs : mutate_current_configuration(i, v)

SpecAlias == Init /\ [][NextAlias]_vars

-----------------------------------------------------------------------------
(* Properties *)

constructed == pc \in {"idle", "loop"}

Row(t) == heap[eca.spacetime[t]]

Generations == Len(eca.spacetime)

AllZero(c) == \A i \in DOMAIN c : c[i] = 0

RuleInRange == rule_number.isint /\ rule_number.val \in 0..19682

OriginalValid == \A i \in DOMAIN original : original[i] \in {0, 1, 2}

\* the integer part of a non-negative step count, from its defining inequality
floor_of(x) == CHOOSE k \in 0..x.num : k * x.den <= x.num /\ x.num < (k + 1) * x.den

RECURSIVE SumFloor(_)
SumFloor(l) == IF l = <<>> THEN 0 ELSE floor_of(Head(l)) + SumFloor(Tail(l))

AllIntegers(l) == \A i \in DOMAIN l : l[i].den = 1

\* C1: for every rule number r in [0, 19682], lookup_table(r) is a total
\* mapping over exactly the 9 neighborhoods (l, s), and the output of the
\* neighborhood of canonical index k = 3*l + s is floor(r / 3^k) mod 3;
\* 255 gives [0,1,1,0,0,1,0,0,0], 9841 nine 1s and 19682 nine 2s.
C1_LookupTableDigits ==
    (table.exc # "not called" /\ RuleInRange) =>
        /\ table.ok
        /\ DOMAIN table.value = {<<l, s>> : l \in 0..2, s \in 0..2}
        /\ \A l \in 0..2, s \in 0..2 :
              table.value[<<l, s>>] = (rule_number.val \div (3 ^ (3 * l + s))) % 3
        /\ rule_number.val = 255 =>
              [k \in 1..9 |-> table.value[neighborhoods[k]]] = <<0, 1, 1, 0, 0, 1, 0, 0, 0>>
        /\ rule_number.val = 9841 => \A k \in 1..9 : table.value[neighborhoods[k]] = 1
        /\ rule_number.val = 19682 => \A k \in 1..9 : table.value[neighborhoods[k]] = 2

C1_Witness ==
    /\ rule_number = Int_(255)
    /\ table.ok
    /\ table.value[<<0, 1>>] = 1
    /\ table.value[<<0, 0>>] = 0

\* C2: every generation t >= 1 of the history is the table applied to the
\* previous generation, cell i reading (previous[left of i], previous[i])
\* where the left of position 0 is position L-1; rule 22 on [0,0,2,0,1,0]
\* gives [1,1,2,0,1,0] and then [1,0,0,0,1,0].
C2_EvolveAppliesRule ==
    constructed =>
        /\ \A t \in 2..Generations : \A i \in 0..(eca._length - 1) :
              LET left == IF i = 0 THEN eca._length - 1 ELSE i - 1
              IN  Row(t)[i + 1] = eca.lookup_table[<<Row(t - 1)[left + 1], Row(t - 1)[i + 1]>>]
        /\ (rule_number = Int_(22) /\ original = TraceInitial) =>
              /\ Generations >= 2 => Row(2) = <<1, 1, 2, 0, 1, 0>>
              /\ Generations >= 3 => Row(3) = <<1, 0, 0, 0, 1, 0>>

C2_Witness ==
    /\ pc = "idle"
    /\ rule_number = Int_(22)
    /\ original = TraceInitial
    /\ Generations = 3
    /\ Row(3) = <<1, 0, 0, 0, 1, 0>>

\* C3: after evolve calls with integer step counts n, m, ... the history has
\* exactly 1 + n + m + ... generations, and the engine (current configuration
\* and whole history) is the one a single evolve(n + m + ...) produces from
\* the freshly constructed engine.
C3_EvolveComposes ==
    (pc = "idle" /\ AllIntegers(log)) =>
        /\ Generations = 1 + SumFloor(log)
        /\ [heap |-> heap, eca |-> eca] =
              run_evolve(construct(<<original>>, 1, lookup_table(rule_number).value),
                         SumFloor(log))

C3_Witness ==
    /\ pc = "idle"
    /\ log = <<Num(1, 1), Num(2, 1)>>
    /\ Generations = 4
    /\ Len(original) = 3

\* C4: a rule number below 0 or above 19682 makes construction, lookup_table
\* and spacetime_field fail with the rule-number error and leaves no engine;
\* an initial condition with a value outside {0,1,2} makes construction and
\* spacetime_field fail with the cell-value error and leaves no engine; an
\* evolve call with a negative step count fails with the step-count error
\* and leaves current configuration and history as they were.
C4_InvalidInputsRejected ==
    /\ []((pc # "new" /\ (rule_number.val < 0 \/ rule_number.val > 19682)) =>
            /\ pc \in {"failed", "returned"}
            /\ eca = NoEngine
            /\ heap = <<original>>
            /\ ~table.ok
            /\ ~field.ok
            /\ table.exc # "not called" => table.exc = RuleError
            /\ (pc = "failed" /\ OriginalValid) => raised = RuleError)
    /\ []((pc # "new" /\ ~OriginalValid) =>
            /\ pc \in {"failed", "returned"}
            /\ eca = NoEngine
            /\ heap = <<original>>
            /\ ~field.ok
            /\ pc = "failed" => raised = CellError)
    /\ [][(pc = "idle" /\ arg'.kind = "num" /\ arg'.num < 0) =>
            /\ raised' = StepsError
            /\ pc' = "idle"
            /\ eca' = eca
            /\ heap' = heap
            /\ todo' = todo]_vars

C4_Witness ==
    /\ pc = "idle"
    /\ arg = Num(-1, 1)
    /\ raised = StepsError
    /\ Generations = 3

\* C5 (as stated): an empty initial condition is rejected, so no engine of
\* lattice length 0 exists and spacetime_field never returns for it.
C5_EmptyLatticeRejected ==
    original = <<>> => (~constructed /\ ~field.ok)

\* C5 (amended): an empty initial condition is accepted: with a valid rule
\* number construction succeeds with lattice length 0, every generation of
\* the history is the empty configuration, and spacetime_field returns
\* 1 + steps empty rows for every accepted step count.
C5_EmptyLatticeAccepted ==
    (original = <<>> /\ RuleInRange) =>
        /\ pc # "failed"
        /\ raised \notin {CellError, RuleError, LookupMiss}
        /\ constructed =>
              /\ eca._length = 0
              /\ \A t \in 1..Generations : Row(t) = <<>>
              /\ heap[eca.current_configuration] = <<>>
        /\ (field.exc # "not called" /\ arg.kind = "num" /\ arg.num >= 0) =>
              /\ field.ok
              /\ Len(field.value) = 1 + floor_of(arg)
              /\ \A t \in DOMAIN field.value : field.value[t] = <<>>

C5_Witness ==
    /\ original = <<>>
    /\ pc = "idle"
    /\ eca._length = 0
    /\ Generations = 3
    /\ Row(3) = <<>>

\* C6 (as stated): a call with a non-integral step count fails.
C6_NonIntegralRejected ==
    (arg.kind = "num" /\ arg.num % arg.den # 0) => raised # "none"

\* C6 (amended): negative and NaN step counts are rejected before any step;
\* a finite non-negative step count, integral or not, is converted by int(),
\* which truncates toward zero (2.5 becomes 2), and exactly that many
\* evolution steps are performed.
C6_NonIntegralTruncated ==
    /\ constructed =>
          /\ Generations + todo = 1 + SumFloor(log)
          /\ (arg.kind = "num" /\ arg.num >= 0) =>
                /\ raised = "none"
                /\ log # <<>>
                /\ log[Len(log)] = arg
          /\ (arg.kind = "nan" \/ (arg.kind = "num" /\ arg.num < 0)) =>
                raised = StepsError
    /\ (field.exc # "not called" /\ arg.kind = "num") =>
          IF arg.num < 0 THEN field.exc = StepsError
          ELSE (OriginalValid /\ RuleInRange) =>
                  /\ field.ok
                  /\ Len(field.value) = 1 + floor_of(arg)

C6_Witness ==
    /\ pc = "idle"
    /\ arg = Num(5, 2)
    /\ log = <<Num(5, 2)>>
    /\ raised = "none"
    /\ Generations = 3

\* C7: generation 0 is a copy distinct from the caller's list, the current
\* configuration is an object distinct from the last history row, and row 0
\* always holds the original initial condition whatever the caller writes
\* into its own list or into the current configuration.
C7_NoAliasing ==
    constructed =>
        /\ eca.spacetime[1] # initial_condition
        /\ eca.current_configuration # eca.spacetime[Generations]
        /\ Row(1) = original

\* C8: with rule number 0, every generation after generation 0 is the
\* all-zero configuration of the lattice's length, for every valid initial
\* condition and every number of steps.
C8_RuleZeroFixedPoint ==
    (rule_number = Int_(0) /\ OriginalValid) =>
        /\ constructed =>
              /\ raised # LookupMiss
              /\ pc = "idle" => Generations = 1 + SumFloor(log)
              /\ \A t \in 2..Generations :
                    Len(Row(t)) = Len(original) /\ AllZero(Row(t))
        /\ (field.exc # "not called" /\ arg.kind = "num" /\ arg.num >= 0) =>
              /\ field.ok
              /\ Len(field.value) = 1 + floor_of(arg)
              /\ \A t \in 2..Len(field.value) :
                    Len(field.value[t]) = Len(original) /\ AllZero(field.value[t])

C8_Witness ==
    /\ rule_number = Int_(0)
    /\ original = <<1, 2, 1>>
    /\ pc = "idle"
    /\ Generations = 3
    /\ Row(3) = <<0, 0, 0>>

\* C9: once an engine is constructed, every configuration of the history and
\* the current configuration have the length of the initial condition and
\* only values in {0,1,2}, and no table lookup ever misses.
C9_LengthAndValues ==
    constructed =>
        /\ eca._length = Len(original)
        /\ raised # LookupMiss
        /\ \A t \in 1..Generations :
              /\ Len(Row(t)) = Len(original)
              /\ \A i \in DOMAIN Row(t) : Row(t)[i] \in {0, 1, 2}
        /\ Len(heap[eca.current_configuration]) = Len(original)
        /\ \A i \in DOMAIN heap[eca.current_configuration] :
              heap[eca.current_configuration][i] \in {0, 1, 2}

C9_Witness ==
    /\ pc = "idle"
    /\ Len(original) = 3
    /\ Generations = 4
    /\ Row(1) = <<2, 1, 0>>

\* C10: the history is append-only: every step keeps each row already
\* present at its index with its contents, one pass of evolve's loop adds
\* exactly one row, nothing else changes the history, and evolve(0) leaves
\* current configuration and history unchanged.
C10_AppendOnly ==
    [][constructed =>
          /\ \A t \in 1..Generations :
                /\ t \in DOMAIN eca'.spacetime
                /\ eca'.spacetime[t] = eca.spacetime[t]
                /\ heap'[eca'.spacetime[t]] = Row(t)
          /\ IF pc = "loop" /\ todo > 0
             THEN Len(eca'.spacetime) = Generations + 1
             ELSE /\ eca' = eca
                  /\ heap' = heap
          /\ (pc = "idle" /\ pc' = "loop" /\ arg' = Num(0, 1)) => todo' = 0]_vars

C10_Witness ==
    /\ pc = "idle"
    /\ log = <<Num(2, 1), Num(0, 1)>>
    /\ Generations = 3
    /\ Len(original) = 2

====
